---- MODULE Spec2Model ----
(***************************************************************************)
(* Model of trin-core/src/jsonrpc/types.rs: the JSON-RPC parameter value   *)
(* (Params), the request envelope (JsonRequest) and its validator, the     *)
(* NodesParams decoder, and the responder channel carried by the three     *)
(* dispatch messages.                                                      *)
(*                                                                         *)
(* A serde_json::Value is a record [t, v]: t is the JSON kind and v the    *)
(* payload.  Integers and floats are distinct kinds, as in                 *)
(* serde_json::Number (PosInt/NegInt versus Float); a float carries its    *)
(* value in tenths.  An object is a function from its keys to values.      *)
(***************************************************************************)
EXTENDS Integers, Sequences, FiniteSets, TLC

VARIABLES input, pc, out, prev, handles, queue, rx_closed, delivered, oksends, nchan

vars == <<input, pc, out, prev, handles, queue, rx_closed, delivered, oksends, nchan>>
pureVars == <<input, pc, out, prev>>
chanVars == <<handles, queue, rx_closed, delivered, oksends, nchan>>

(***************************************************************************)
(* Bounds of the model.                                                    *)
(***************************************************************************)
MaxEnrs == 2
MaxArgs == 2
MaxChans == 2
MaxHandles == 2
MaxSends == 2

(***************************************************************************)
(* serde_json::Value                                                       *)
(***************************************************************************)
JNull == [t |-> "null", v |-> 0]
JBool(b) == [t |-> "bool", v |-> b]
JInt(n) == [t |-> "int", v |-> n]
JFloat(tenths) == [t |-> "float", v |-> tenths]
JStr(s) == [t |-> "str", v |-> s]
JArr(a) == [t |-> "arr", v |-> a]
JObj(o) == [t |-> "obj", v |-> o]

(***************************************************************************)
(* Result and Option                                                       *)
(***************************************************************************)
Ok(v) == [ok |-> TRUE, val |-> v]
Err(e) == [ok |-> FALSE, err |-> e]
Some(v) == [some |-> TRUE, val |-> v]
None == [some |-> FALSE]
NotRun == [ok |-> FALSE, err |-> "not run"]

(***************************************************************************)
(* enum Params { None, Array(Vec<Value>), Map(Map<String, Value>) }        *)
(***************************************************************************)
Params_None == [variant |-> "None"]
Params_Array(vec) == [variant |-> "Array", vec |-> vec]
Params_Map(map) == [variant |-> "Map", map |-> map]

\* The untagged representation tries the variants in declaration order: the
\* unit variant accepts only null, Vec<Value> only a sequence, Map only a map.
Params_deserialize_lenient(v) ==
    IF v.t = "arr" THEN Ok(Params_Array(v.v))
    ELSE IF v.t = "obj" THEN Ok(Params_Map(v.v))
    ELSE Ok(Params_None)

Params_deserialize(v) ==
    IF v.t = "null" THEN Ok(Params_None)
    ELSE IF v.t = "arr" THEN Ok(Params_Array(v.v))
    ELSE IF v.t = "obj" THEN Ok(Params_Map(v.v))
    ELSE Err("data did not match any variant of untagged enum Params")

\* impl From<Params> for Value
Value_from_swapped(params) ==
    IF params.variant = "Array" THEN JArr(params.vec)
    ELSE IF params.variant = "Map" THEN JObj(params.map)
    ELSE JArr(<<>>)

Value_from(params) ==
    IF params.variant = "Array" THEN JArr(params.vec)
    ELSE IF params.variant = "Map" THEN JObj(params.map)
    ELSE JNull

(***************************************************************************)
(* struct JsonRequest { jsonrpc, params, method, id }                      *)
(***************************************************************************)
default_params_empty_array == Params_Array(<<>>)

default_params == Params_None

\* String and u32 fields: what the derived deserializer accepts per field.
\* The u32 range test is written with a division so that it is evaluated
\* without leaving the integers the checker can hold.
IsString(v) == v.t = "str"
IsU32(v) == v.t = "int" /\ v.v >= 0 /\ (v.v \div 65536) < 65536

JsonRequest_new(jsonrpc, params, method, id) ==
    [jsonrpc |-> jsonrpc, params |-> params, method |-> method, id |-> id]

\* Map form: a known key with a value of the wrong type fails, an unknown key
\* is skipped (the struct carries no deny_unknown_fields), a missing key
\* fails unless the field has a default.
JsonRequest_visit_map(m) ==
    LET has(k) == k \in DOMAIN m
        p == IF has("params") THEN Params_deserialize(m["params"]) ELSE Ok(default_params)
    IN  IF has("jsonrpc") /\ ~IsString(m["jsonrpc"]) THEN Err([kind |-> "invalid type", field |-> "jsonrpc"])
        ELSE IF ~p.ok THEN Err([kind |-> "invalid type", field |-> "params"])
        ELSE IF has("method") /\ ~IsString(m["method"]) THEN Err([kind |-> "invalid type", field |-> "method"])
        ELSE IF has("id") /\ ~IsU32(m["id"]) THEN Err([kind |-> "invalid type", field |-> "id"])
        ELSE IF ~has("jsonrpc") THEN Err([kind |-> "missing field", field |-> "jsonrpc"])
        ELSE IF ~has("method") THEN Err([kind |-> "missing field", field |-> "method"])
        ELSE IF ~has("id") THEN Err([kind |-> "missing field", field |-> "id"])
        ELSE Ok(JsonRequest_new(m["jsonrpc"].v, p.val, m["method"].v, m["id"].v))

\* Sequence form: the fields in declaration order jsonrpc, params, method, id.
JsonRequest_visit_seq(s) ==
    IF Len(s) # 4 THEN Err([kind |-> "invalid length", field |-> "seq"])
    ELSE IF ~IsString(s[1]) THEN Err([kind |-> "invalid type", field |-> "jsonrpc"])
    ELSE IF ~Params_deserialize(s[2]).ok THEN Err([kind |-> "invalid type", field |-> "params"])
    ELSE IF ~IsString(s[3]) THEN Err([kind |-> "invalid type", field |-> "method"])
    ELSE IF ~IsU32(s[4]) THEN Err([kind |-> "invalid type", field |-> "id"])
    ELSE Ok(JsonRequest_new(s[1].v, Params_deserialize(s[2]).val, s[3].v, s[4].v))

JsonRequest_deserialize(doc) ==
    IF doc.t = "obj" THEN JsonRequest_visit_map(doc.v)
    ELSE IF doc.t = "arr" THEN JsonRequest_visit_seq(doc.v)
    ELSE Err([kind |-> "invalid type", field |-> "struct"])

\* ValidationError::new(code)
ValidationError_new(code) == [code |-> code]

\* fn validate_jsonrpc_version(jsonrpc: &str) -> Result<(), ValidationError>
validate_jsonrpc_version_prefix(jsonrpc) ==
    IF jsonrpc \notin {"2.0", "2.00", "2"} THEN Err(ValidationError_new("Unsupported jsonrpc version"))
    ELSE Ok("unit")

validate_jsonrpc_version(jsonrpc) ==
    IF jsonrpc # "2.0" THEN Err(ValidationError_new("Unsupported jsonrpc version"))
    ELSE Ok("unit")

\* #[derive(Validate)]: the errors of each annotated field are filed under the
\* field's name; the result is Ok when nothing was filed.
JsonRequest_validate(request) ==
    LET r == validate_jsonrpc_version(request.jsonrpc)
        errors == IF r.ok THEN {} ELSE {<<"jsonrpc", r.err>>}
    IN  IF errors = {} THEN Ok("unit") ELSE Err(errors)

\* ValidationErrors::has_error
has_error(result, field) == ~result.ok /\ \E e \in result.err : e[1] = field

(***************************************************************************)
(* NodesParams                                                             *)
(***************************************************************************)
\* Value::get(&str): only an object has keys.
Value_get(value, key) ==
    IF value.t = "obj" /\ key \in DOMAIN value.v THEN Some(value.v[key]) ELSE None

\* Value::as_u64: only a non-negative integer number.
Value_as_u64(value) ==
    IF value.t = "int" /\ value.v >= 0 THEN Some(value.v) ELSE None

\* Value::as_array
Value_as_array(value) ==
    IF value.t = "arr" THEN Some(value.v) ELSE None

\* `as u8`: the low eight bits.
as_u8(n) == n % 256

\* The peer-record conversion contract, TryFrom<&Value> for SszEnr: a string
\* holding a well-formed record converts, anything else is that element's
\* conversion error.
ValidEnrText == {"enr:A", "enr:B"}

SszEnr_try_from(value) ==
    IF value.t # "str" THEN Err(ValidationError_new("Enr value is not a string!"))
    ELSE IF value.v \notin ValidEnrText THEN Err(ValidationError_new("Invalid enr value"))
    ELSE Ok([enr |-> value.v])

\* enrs.iter().map(SszEnr::try_from).collect::<Result<Vec<_>, _>>()
RECURSIVE collect_last_error(_, _, _)
collect_last_error(items, acc, e) ==
    IF items = <<>> THEN (IF e.some THEN Err(e.val) ELSE Ok(acc))
    ELSE LET r == SszEnr_try_from(Head(items))
         IN  IF r.ok THEN collect_last_error(Tail(items), Append(acc, r.val), e)
             ELSE collect_last_error(Tail(items), acc, Some(r.err))

RECURSIVE collect_from(_, _)
collect_from(items, acc) ==
    IF items = <<>> THEN Ok(acc)
    ELSE LET r == SszEnr_try_from(Head(items))
         IN  IF r.ok THEN collect_from(Tail(items), Append(acc, r.val))
             ELSE Err(r.err)

collect_wrong(items) == collect_last_error(items, <<>>, None)

collect(items) == collect_from(items, <<>>)

NodesParams_new(total, enrs) == [total |-> total, enrs |-> enrs]

\* impl TryFrom<&Value> for NodesParams
NodesParams_try_from_enrs_first(value) ==
    LET t == Value_get(value, "total")
        e == Value_get(value, "enrs")
    IN  IF ~e.some THEN Err(ValidationError_new("Missing enrs param"))
        ELSE IF ~Value_as_array(e.val).some THEN Err(ValidationError_new("Empty enrs param"))
        ELSE IF ~t.some THEN Err(ValidationError_new("Missing total param"))
        ELSE IF ~Value_as_u64(t.val).some THEN Err(ValidationError_new("Invalid total param"))
        ELSE LET enrs == collect(Value_as_array(e.val).val)
             IN  IF ~enrs.ok THEN Err(enrs.err)
                 ELSE Ok(NodesParams_new(as_u8(Value_as_u64(t.val).val), enrs.val))

NodesParams_try_from_checked_total(value) ==
    LET t == Value_get(value, "total")
        e == Value_get(value, "enrs")
    IN  IF ~t.some THEN Err(ValidationError_new("Missing total param"))
        ELSE IF ~Value_as_u64(t.val).some THEN Err(ValidationError_new("Invalid total param"))
        ELSE IF ~e.some THEN Err(ValidationError_new("Missing enrs param"))
        ELSE IF ~Value_as_array(e.val).some THEN Err(ValidationError_new("Empty enrs param"))
        ELSE LET enrs == collect(Value_as_array(e.val).val)
             IN  IF ~enrs.ok THEN Err(enrs.err)
                 ELSE IF Len(enrs.val) # Value_as_u64(t.val).val
                      THEN Err(ValidationError_new("Invalid total param"))
                      ELSE Ok(NodesParams_new(as_u8(Value_as_u64(t.val).val), enrs.val))

NodesParams_try_from(value) ==
    LET t == Value_get(value, "total")
        e == Value_get(value, "enrs")
    IN  IF ~t.some THEN Err(ValidationError_new("Missing total param"))
        ELSE IF ~Value_as_u64(t.val).some THEN Err(ValidationError_new("Invalid total param"))
        ELSE IF ~e.some THEN Err(ValidationError_new("Missing enrs param"))
        ELSE IF ~Value_as_array(e.val).some THEN Err(ValidationError_new("Empty enrs param"))
        ELSE LET enrs == collect(Value_as_array(e.val).val)
             IN  IF ~enrs.ok THEN Err(enrs.err)
                 ELSE Ok(NodesParams_new(as_u8(Value_as_u64(t.val).val), enrs.val))

(***************************************************************************)
(* Inputs: the JSON values handed to the three entry points.               *)
(***************************************************************************)
SeqsUpTo(S, n) == UNION {[1..k -> S] : k \in 0..n}

\* A key that is absent, or present with one of the values Vs.
Field(k, Vs) == {<<>>} \cup {k :> v : v \in Vs}

Scalars == {JBool(TRUE), JBool(FALSE), JInt(-1), JInt(4), JFloat(23), JStr("hello")}

Elems == {JNull, JBool(TRUE), JInt(-1), JInt(256), JFloat(23), JStr("abc"),
          JArr(<<>>), JArr(<<JInt(0)>>), JObj([key |-> JStr("value")])}

ParamInputs ==
    {JNull} \cup Scalars
    \cup {JArr(a) : a \in SeqsUpTo(Elems, MaxArgs)}
    \cup {JObj(a @@ b) : a \in Field("key", {JStr("value"), JNull, JArr(<<JInt(0)>>)}),
                         b \in Field("total", {JInt(3), JObj(<<>>)})}

DocInputs ==
    {JObj(j @@ m @@ i @@ p @@ x) :
        j \in Field("jsonrpc", {JStr("2.0"), JStr("1.0"), JStr("2.00"), JInt(2)}),
        m \in Field("method", {JStr(""), JStr("eth_blockNumber"), JNull}),
        i \in Field("id", {JInt(1), JInt(-1), JStr("1")}),
        p \in Field("params", {JNull, JArr(<<>>), JArr(<<JInt(4)>>),
                               JObj([key |-> JStr("value")]), JStr("hello"), JInt(4)}),
        x \in Field("extra", {JNull, JInt(1)})}
    \cup {JArr(<<JStr(v), p, JStr("eth_blockNumber"), JInt(1)>>) :
            v \in {"2.0", "1.0"}, p \in {JNull, JArr(<<JInt(4)>>), JInt(4)}}
    \cup {JArr(<<JStr("2.0"), JNull, JStr("eth_blockNumber")>>)}

EnrElems == {JStr("enr:A"), JStr("enr:B"), JStr("bad"), JInt(7)}

NodesInputs ==
    {JObj(t @@ e) :
        t \in Field("total", {JInt(0), JInt(1), JInt(3), JInt(255), JInt(256), JInt(259),
                              JInt(-1), JFloat(30), JStr("3")}),
        e \in Field("enrs", {JArr(a) : a \in SeqsUpTo(EnrElems, MaxEnrs)}
                            \cup {JStr("not-an-array"), JNull})}

Inputs == ParamInputs \cup DocInputs \cup NodesInputs

(***************************************************************************)
(* The entry points applied to an input.                                   *)
(***************************************************************************)
ChanInit ==
    /\ handles = <<>>
    /\ queue = [c \in 1..(MaxChans + 1) |-> <<>>]
    /\ rx_closed = [c \in 1..(MaxChans + 1) |-> FALSE]
    /\ delivered = [c \in 1..(MaxChans + 1) |-> <<>>]
    /\ oksends = [c \in 1..(MaxChans + 1) |-> 0]
    /\ nchan = 0

Init ==
    /\ input \in Inputs
    /\ pc = "start"
    /\ out = NotRun
    /\ prev = NotRun
    /\ ChanInit

\* serde_json::from_value::<Params>(input)
DeserializeParams ==
    /\ pc = "start"
    /\ out' = Params_deserialize(input)
    /\ prev' = out
    /\ pc' = "params"
    /\ UNCHANGED <<input, chanVars>>

\* Value::from(params) of the parsed parameters
IntoValue ==
    /\ pc = "params"
    /\ out.ok
    /\ out' = Ok(Value_from(out.val))
    /\ prev' = out
    /\ pc' = "value"
    /\ UNCHANGED <<input, chanVars>>

\* serde_json::from_value::<JsonRequest>(input)
DeserializeRequest ==
    /\ pc = "start"
    /\ out' = JsonRequest_deserialize(input)
    /\ prev' = out
    /\ pc' = "request"
    /\ UNCHANGED <<input, chanVars>>

\* request.validate() of the parsed request
Validate ==
    /\ pc = "request"
    /\ out.ok
    /\ out' = JsonRequest_validate(out.val)
    /\ prev' = out
    /\ pc' = "validated"
    /\ UNCHANGED <<input, chanVars>>

\* NodesParams::try_from(&input)
DecodeNodes ==
    /\ pc = "start"
    /\ out' = NodesParams_try_from(input)
    /\ prev' = out
    /\ pc' = "nodes"
    /\ UNCHANGED <<input, chanVars>>

Next ==
    \/ DeserializeParams
    \/ IntoValue
    \/ DeserializeRequest
    \/ Validate
    \/ DecodeNodes

Spec == Init /\ [][Next]_vars

(***************************************************************************)
(* The responder of a dispatch message: the sending half of an unbounded   *)
(* mpsc channel.  handles lists every live holder of a sending half: the   *)
(* constructed messages, their clones, and clones of the resp field alone. *)
(* The field msg of a holder records the constructed message it descends   *)
(* from, and oksends[m] counts the sends that returned Ok through the      *)
(* holders descending from message m.                                      *)
(***************************************************************************)
MessageKinds == {"Portal", "History", "State"}
Replies == {Ok(JNull), Err("error")}

PortalJsonRpcRequest(endpoint, resp, params) ==
    [kind |-> "Portal", msg |-> resp, endpoint |-> endpoint, resp |-> resp, params |-> params]
HistoryJsonRpcRequest(endpoint, resp) ==
    [kind |-> "History", msg |-> resp, endpoint |-> endpoint, resp |-> resp]
StateJsonRpcRequest(endpoint, resp) ==
    [kind |-> "State", msg |-> resp, endpoint |-> endpoint, resp |-> resp]
Responder(msg, resp) == [kind |-> "Responder", msg |-> msg, resp |-> resp]

RECURSIVE SumTo(_, _)
SumTo(f, n) == IF n = 0 THEN 0 ELSE f[n] + SumTo(f, n - 1)

TotalSends == SumTo(oksends, MaxChans + 1)

\* UnboundedSender::clone: the clone is a handle to the same channel.
Sender_clone_detached(resp) == MaxChans + 1

Sender_clone(resp) == resp

ChanSpecInit ==
    /\ input = JNull
    /\ pc = "start"
    /\ out = NotRun
    /\ prev = NotRun
    /\ ChanInit

\* The classification step builds a message around the sending half of a
\* fresh channel.
Construct(kind, params) ==
    /\ nchan < MaxChans
    /\ Len(handles) < MaxHandles
    /\ nchan' = nchan + 1
    /\ handles' = Append(handles,
          IF kind = "Portal" THEN PortalJsonRpcRequest("endpoint", nchan + 1, params)
          ELSE IF kind = "History" THEN HistoryJsonRpcRequest("endpoint", nchan + 1)
          ELSE StateJsonRpcRequest("endpoint", nchan + 1))
    /\ UNCHANGED <<pureVars, queue, rx_closed, delivered, oksends>>

\* #[derive(Clone)] on PortalJsonRpcRequest and HistoryJsonRpcRequest;
\* StateJsonRpcRequest does not derive it.
CloneMessage(i) ==
    /\ Len(handles) < MaxHandles
    /\ handles[i].kind \in {"Portal", "History"}
    /\ handles' = Append(handles, [handles[i] EXCEPT !.resp = Sender_clone(@)])
    /\ UNCHANGED <<pureVars, queue, rx_closed, delivered, oksends, nchan>>

\* resp is a public field of all three messages: message.resp.clone()
CloneResponder(i) ==
    /\ Len(handles) < MaxHandles
    /\ handles' = Append(handles, Responder(handles[i].msg, Sender_clone(handles[i].resp)))
    /\ UNCHANGED <<pureVars, queue, rx_closed, delivered, oksends, nchan>>

\* holder.resp.send(reply): appended unless the receiving half is closed,
\* in which case the reply comes back in the error.
Send(i, reply) ==
    /\ TotalSends < MaxSends
    /\ LET c == handles[i].resp
       IN  IF rx_closed[c]
           THEN /\ out' = Err([kind |-> "SendError", reply |-> reply])
                /\ UNCHANGED <<queue, oksends>>
           ELSE /\ queue' = [queue EXCEPT ![c] = Append(@, reply)]
                /\ oksends' = [oksends EXCEPT ![handles[i].msg] = @ + 1]
                /\ out' = Ok("unit")
    /\ UNCHANGED <<input, pc, prev, handles, rx_closed, delivered, nchan>>

\* The transport takes the next reply off the receiving half.
Recv(c) ==
    /\ queue[c] # <<>>
    /\ delivered' = [delivered EXCEPT ![c] = Append(@, Head(queue[c]))]
    /\ queue' = [queue EXCEPT ![c] = Tail(@)]
    /\ UNCHANGED <<pureVars, handles, rx_closed, oksends, nchan>>

\* The transport closes (or drops) the receiving half.
CloseRx(c) ==
    /\ ~rx_closed[c]
    /\ rx_closed' = [rx_closed EXCEPT ![c] = TRUE]
    /\ UNCHANGED <<pureVars, handles, queue, delivered, oksends, nchan>>

ChanNext ==
    \/ \E kind \in MessageKinds : Construct(kind, Params_Array(<<JInt(4)>>))
    \/ \E i \in 1..Len(handles) : CloneMessage(i)
    \/ \E i \in 1..Len(handles) : CloneResponder(i)
    \/ \E i \in 1..Len(handles), reply \in Replies : Send(i, reply)
    \/ \E c \in 1..nchan : Recv(c)
    \/ \E c \in 1..nchan : CloseRx(c)

ChanSpec == ChanSpecInit /\ [][ChanNext]_vars

(***************************************************************************)
(* Properties of the responder channel.                                    *)
(***************************************************************************)
Pushed(c) == Len(queue[c]) + Len(delivered[c])

HasKey(v, k) == v.t = "obj" /\ k \in DOMAIN v.v
KnownFields == {"jsonrpc", "method", "id", "params"}
FieldErrors == {"Missing total param", "Invalid total param",
                "Missing enrs param", "Empty enrs param"}
IsUnsignedInt(v) == v.t = "int" /\ v.v >= 0
TotalAndEnrsPass(v) ==
    /\ HasKey(v, "total") /\ IsUnsignedInt(v.v["total"])
    /\ HasKey(v, "enrs") /\ v.v["enrs"].t = "arr"
Failing(arr) == {i \in 1..Len(arr) : ~SszEnr_try_from(arr[i]).ok}
FirstFailing(arr) == CHOOSE i \in Failing(arr) : \A j \in Failing(arr) : i <= j

\* C1: the decoder rejects every "total" that is an unsigned integer above
\* 255 with the invalid-total error, and for every accepted input the
\* returned total equals the input "total" and lies in 0..255.
C1_TotalAbove255Rejected ==
    pc = "nodes" =>
        /\ (HasKey(input, "total") /\ IsUnsignedInt(input.v["total"]) /\ input.v["total"].v > 255)
              => out = Err(ValidationError_new("Invalid total param"))
        /\ out.ok => (out.val.total = input.v["total"].v /\ out.val.total \in 0..255)

\* C2: deserializing a JsonRequest fails for every document that has a
\* top-level field other than jsonrpc, method, id and params.
C2_UnknownFieldRejected ==
    (pc = "request" /\ input.t = "obj" /\ \E k \in DOMAIN input.v : k \notin KnownFields)
        => ~out.ok

\* C3: validate returns Ok exactly when jsonrpc equals "2.0", whatever the
\* method, id and params; otherwise its errors are filed under the field
\* "jsonrpc" and under no other field.
C3_ValidateIffVersion ==
    pc = "validated" =>
        /\ out.ok <=> prev.val.jsonrpc = "2.0"
        /\ ~out.ok => (has_error(out, "jsonrpc") /\ {e[1] : e \in out.err} = {"jsonrpc"})

C3_Witness ==
    /\ pc = "validated"
    /\ ~out.ok
    /\ prev.val.jsonrpc = "2.00"
    /\ prev.val.method = ""
    /\ prev.val.params.variant = "Map"

\* C4: a null, array or object value parses into the matching Params variant
\* (null to None, an array to Array with the same elements in the same order,
\* an object to Map with the same entries), and converting the result back
\* to a value yields the input again.
C4_ParamsRoundTrip ==
    /\ (pc = "params" /\ input.t = "null") => out = Ok(Params_None)
    /\ (pc = "params" /\ input.t = "arr") =>
          /\ out.ok /\ out.val.variant = "Array"
          /\ Len(out.val.vec) = Len(input.v)
          /\ \A i \in 1..Len(input.v) : out.val.vec[i] = input.v[i]
    /\ (pc = "params" /\ input.t = "obj") =>
          /\ out.ok /\ out.val.variant = "Map"
          /\ DOMAIN out.val.map = DOMAIN input.v
          /\ \A k \in DOMAIN input.v : out.val.map[k] = input.v[k]
    /\ (pc = "value" /\ input.t \in {"null", "arr", "obj"}) => out = Ok(input)

C4_Witness ==
    /\ pc = "value"
    /\ input.t = "arr"
    /\ Len(input.v) = 2
    /\ input.v[1] # input.v[2]
    /\ prev.val.variant = "Array"
    /\ out.val = input

\* C5: parsing into Params fails for every bare string, number or boolean,
\* also when the value is the "params" field of a request document.
C5_ScalarsRejected ==
    /\ (pc = "params" /\ input.t \in {"str", "int", "float", "bool"}) => ~out.ok
    /\ (pc = "request" /\ HasKey(input, "params")
          /\ input.v["params"].t \in {"str", "int", "float", "bool"}) => ~out.ok

C5_Witness ==
    /\ pc = "params"
    /\ input.t = "int"
    /\ ~out.ok

\* C6: the decoder checks "total" before "enrs" and reports the first failing
\* check: missing total, then invalid total, whatever "enrs" holds; then
\* missing enrs, then non-array enrs; none of the four once both fields pass.
C6_FieldCheckOrder ==
    pc = "nodes" =>
        /\ ~HasKey(input, "total") => out = Err(ValidationError_new("Missing total param"))
        /\ (HasKey(input, "total") /\ ~IsUnsignedInt(input.v["total"]))
              => out = Err(ValidationError_new("Invalid total param"))
        /\ (HasKey(input, "total") /\ IsUnsignedInt(input.v["total"]) /\ ~HasKey(input, "enrs"))
              => out = Err(ValidationError_new("Missing enrs param"))
        /\ (HasKey(input, "total") /\ IsUnsignedInt(input.v["total"]) /\ HasKey(input, "enrs")
              /\ input.v["enrs"].t # "arr")
              => out = Err(ValidationError_new("Empty enrs param"))
        /\ TotalAndEnrsPass(input) => (out.ok \/ out.err.code \notin FieldErrors)

C6_Witness ==
    /\ pc = "nodes"
    /\ HasKey(input, "total")
    /\ ~IsUnsignedInt(input.v["total"])
    /\ ~HasKey(input, "enrs")
    /\ out = Err(ValidationError_new("Invalid total param"))

\* C7: once "total" and "enrs" pass, the elements are converted in index
\* order: the result is the conversion error of the lowest failing index, or,
\* when every element converts, a list as long as the array whose i-th entry
\* is the conversion of the i-th element.
C7_FirstFailureWins ==
    (pc = "nodes" /\ TotalAndEnrsPass(input)) =>
        LET arr == input.v["enrs"].v
        IN  /\ Failing(arr) # {} => out = Err(SszEnr_try_from(arr[FirstFailing(arr)]).err)
            /\ Failing(arr) = {} =>
                  /\ out.ok
                  /\ Len(out.val.enrs) = Len(arr)
                  /\ \A i \in 1..Len(arr) : Ok(out.val.enrs[i]) = SszEnr_try_from(arr[i])

C7_Witness ==
    /\ pc = "nodes"
    /\ TotalAndEnrsPass(input)
    /\ Len(input.v["enrs"].v) = 2
    /\ input.v["enrs"].v[1] = JStr("bad")
    /\ input.v["enrs"].v[2] = JInt(7)
    /\ out = Err(ValidationError_new("Invalid enr value"))

\* C9: a document with jsonrpc, method and id but no "params" key parses to
\* a request whose params are Params::None, the same result as for the
\* document with "params" present and null.
C9_MissingParamsIsNone ==
    (pc = "request" /\ input.t = "obj" /\ {"jsonrpc", "method", "id"} \subseteq DOMAIN input.v
        /\ "params" \notin DOMAIN input.v) =>
        /\ out.ok => out.val.params = Params_None
        /\ out = JsonRequest_deserialize(JObj(input.v @@ ("params" :> JNull)))
        /\ (IsString(input.v["jsonrpc"]) /\ IsString(input.v["method"]) /\ IsU32(input.v["id"]))
              => out.ok

C9_Witness ==
    /\ pc = "request"
    /\ input.t = "obj"
    /\ DOMAIN input.v = {"jsonrpc", "method", "id"}
    /\ out.ok
    /\ out.val.params = Params_None

\* C10: the decoder never compares "total" with the number of records: for
\* every total in 0..255 and every array whose elements all convert, the
\* decode succeeds with that total and a list as long as the array.
C10_TotalNotCompared ==
    (pc = "nodes" /\ TotalAndEnrsPass(input) /\ input.v["total"].v \in 0..255
        /\ Failing(input.v["enrs"].v) = {}) =>
        /\ out.ok
        /\ out.val.total = input.v["total"].v
        /\ Len(out.val.enrs) = Len(input.v["enrs"].v)

C10_Witness ==
    /\ pc = "nodes"
    /\ out.ok
    /\ out.val.total = 255
    /\ Len(out.val.enrs) = 2
    /\ Len(input.v["enrs"].v) = 2

====
